---- MODULE Spec2Model ----
(***************************************************************************)
(* Link-layer DHCPv4 / ARP client transport of wicked                      *)
(* (src/src/dhcp/socket-linux.c): checksum primitives, the IPv4+UDP header *)
(* codec, the two BPF classifier programs and the capture handle with its  *)
(* DHCP and ARP adapters.                                                  *)
(*                                                                         *)
(* Memory is modelled as sequences of bytes (0..255).  A C pointer into a  *)
(* buffer is the pair (buffer, offset) with a 0-based offset, so that      *)
(* buffer[off + 1] is the byte the pointer addresses.                      *)
(***************************************************************************)
EXTENDS Integers, Sequences, FiniteSets, TLC

VARIABLES
    hostBE,     \* byte order of the build: TRUE on a big-endian host
    pc,         \* position of the codec pipeline: "idle", "built", "wire", "checked"
    bp,         \* readable region of the ni_buffer_t given to ni_dhcp_build_send_header
    tx,         \* what the caller passed: [payload, src, dst]
    via,        \* how the bytes on the wire came about
    wire,       \* the bytes the next read() on the raw socket returns
    buffer,     \* the receive buffer check_packet_header is run on
    rx,         \* outcome of the last check_packet_header call
    done,       \* static int done of ni_capture_set_filter
    dhcp_bpf_filter,    \* the static array, patched in place
    arp_bpf_filter,     \* the static array, patched in place
    dev,        \* the ni_dhcp_device_t
    heap,       \* every ni_capture_t ever allocated; a capture pointer is an index
    last        \* what the last operation did and returned

codecVars == <<hostBE, pc, bp, tx, via, wire, buffer, rx>>
captureVars == <<done, dhcp_bpf_filter, arp_bpf_filter, dev, heap, last>>
vars == <<hostBE, pc, bp, tx, via, wire, buffer, rx,
          done, dhcp_bpf_filter, arp_bpf_filter, dev, heap, last>>

(***************************************************************************)
(* Integer widths and byte order                                           *)
(***************************************************************************)
U16 == 65536

\* bit k of x
BitOf(x, k) == (x \div (2^k)) % 2

\* x with bit k inverted
FlipBit(x, k) == IF BitOf(x, k) = 1 THEN x - 2^k ELSE x + 2^k

\* bitwise AND of two 16-bit values
And16(x, y) ==
    LET bit(k) == BitOf(x, k) * BitOf(y, k) * (2^k)
        RECURSIVE sum(_)
        sum(k) == IF k < 0 THEN 0 ELSE bit(k) + sum(k - 1)
    IN sum(15)

\* the two bytes of a 16-bit value exchanged
bswap16(x) == (x % 256) * 256 + ((x \div 256) % 256)

\* htons / ntohs: the identity on a big-endian host, a byte swap otherwise
htons(x) == IF hostBE THEN x % U16 ELSE bswap16(x % U16)
ntohs(x) == IF hostBE THEN x % U16 ELSE bswap16(x % U16)

\* *(uint16_t *)(data + off): a native 16-bit load
LoadU16(data, off) ==
    IF hostBE THEN data[off + 1] * 256 + data[off + 2]
              ELSE data[off + 1] + data[off + 2] * 256

\* the two bytes a native 16-bit store of v leaves in memory
StoreU16(v) ==
    IF hostBE THEN <<(v \div 256) % 256, v % 256>>
              ELSE <<v % 256, (v \div 256) % 256>>

\* memory with the bytes of `bytes` written at offset off
Poke(data, off, bytes) ==
    [i \in 1..Len(data) |->
        IF i > off /\ i <= off + Len(bytes) THEN bytes[i - off] ELSE data[i]]

(***************************************************************************)
(* Checksum primitives                                                     *)
(***************************************************************************)
\* checksum_partial without the trailing odd byte
RECURSIVE checksum_partial_even(_, _, _, _)
checksum_partial_even(sum, data, off, len) ==
    IF len > 1
    THEN checksum_partial_even(sum + (IF hostBE THEN data[off + 1] * 256 + data[off + 2]
                                                ELSE data[off + 1] + data[off + 2] * 256),
                               data, off + 2, len - 2)
    ELSE sum

\* The accumulator is a uint32_t.  One call adds at most 32768 words (len is a
\* uint16_t) and ipudp_checksum chains three calls adding at most 6 + 4 + 32768
\* words of at most 65535 each, which stays below 2^32: the accumulator never
\* wraps, so unbounded addition is exact here.
RECURSIVE checksum_partial(_, _, _, _)
checksum_partial(sum, data, off, len) ==
    IF len > 1
    THEN checksum_partial(sum + LoadU16(data, off), data, off + 2, len - 2)
    ELSE IF len = 1
         THEN sum + htons((data[off + 1] * 256) % U16)
         ELSE sum

\* the result is the uint16_t truncation of ~sum
checksum_fold(sum) ==
    LET s1 == (sum \div U16) + (sum % U16)
        s2 == s1 + (s1 \div U16)
    IN  (U16 - 1) - (s2 % U16)

\* uint16_t length: the caller's length is truncated to 16 bits
checksum(data, off, length) ==
    checksum_fold(checksum_partial(0, data, off, length % U16))

\* the 12 bytes of fake_header for the IP header at iph and the UDP header at uh
fake_header(data, iph, uh) ==
    SubSeq(data, iph + 13, iph + 16) \o SubSeq(data, iph + 17, iph + 20)
        \o <<0, data[iph + 10]>> \o SubSeq(data, uh + 5, uh + 6)

ipudp_checksum(data, iph, uh, payload, length) ==
    LET c1 == checksum_partial(0, fake_header(data, iph, uh), 0, 12)
        c2 == checksum_partial(c1, data, uh, 8)
        c3 == checksum_partial(c2, data, payload, length % U16)
    IN  checksum_fold(c3)

(***************************************************************************)
(* Header codec                                                            *)
(***************************************************************************)
DHCP_CLIENT_PORT == 68
DHCP_SERVER_PORT == 67
IPPROTO_UDP == 17
IPPROTO_TCP == 6
IPTOS_LOWDELAY == 16
IPDEFTTL == 64
IP_DF == 16384
IP_MF == 8192
IP_OFFMASK == 8191
SIZEOF_IP == 20
SIZEOF_UDPHDR == 8

INADDR_ANY == <<0, 0, 0, 0>>
INADDR_BROADCAST == <<255, 255, 255, 255>>

\* ni_dhcp_build_send_header without the coercion of 0.0.0.0 to limited broadcast
build_send_header_nobcast(payload, src, dst) ==
    LET payload_len == Len(payload)
        udp_len == payload_len + SIZEOF_UDPHDR
        udp == StoreU16(htons(DHCP_CLIENT_PORT)) \o StoreU16(htons(DHCP_SERVER_PORT))
                  \o StoreU16(htons(udp_len)) \o StoreU16(0)
        ip == <<4 * 16 + 5, IPTOS_LOWDELAY>>
                  \o StoreU16(htons(SIZEOF_IP + udp_len))
                  \o StoreU16(0)
                  \o StoreU16(htons(IP_DF))
                  \o <<IPDEFTTL, IPPROTO_UDP>>
                  \o StoreU16(0)
                  \o src \o dst
        b0 == ip \o udp \o payload
        b1 == Poke(b0, 10, StoreU16(checksum(b0, 0, SIZEOF_IP)))
        uh_sum == ipudp_checksum(b1, 0, SIZEOF_IP, SIZEOF_IP + SIZEOF_UDPHDR, payload_len)
    IN  Poke(b1, SIZEOF_IP + 6, StoreU16(uh_sum))

\* bp is the readable region of the buffer (the payload); the result is the
\* readable region after both ni_buffer_push_head calls and all stores
ni_dhcp_build_send_header(payload, src, dst) ==
    LET payload_len == Len(payload)
        udp_len == payload_len + SIZEOF_UDPHDR
        udp == StoreU16(htons(DHCP_CLIENT_PORT)) \o StoreU16(htons(DHCP_SERVER_PORT))
                  \o StoreU16(htons(udp_len)) \o StoreU16(0)
        ip_dst == IF dst = INADDR_ANY THEN INADDR_BROADCAST ELSE dst
        ip == <<4 * 16 + 5, IPTOS_LOWDELAY>>
                  \o StoreU16(htons(SIZEOF_IP + udp_len))
                  \o StoreU16(0)
                  \o StoreU16(htons(IP_DF))
                  \o <<IPDEFTTL, IPPROTO_UDP>>
                  \o StoreU16(0)
                  \o src \o ip_dst
        b0 == ip \o udp \o payload
        b1 == Poke(b0, 10, StoreU16(checksum(b0, 0, SIZEOF_IP)))
        uh_sum == ipudp_checksum(b1, 0, SIZEOF_IP, SIZEOF_IP + SIZEOF_UDPHDR, payload_len)
    IN  Poke(b1, SIZEOF_IP + 6, StoreU16(uh_sum))

\* the NULL pointer, and a size_t the callee never stored to
NULL == -1
NoLength == -1

\* fields of struct ip at the start of data
ip_v(data) == data[1] \div 16
ip_hl(data) == data[1] % 16
ip_len(data) == LoadU16(data, 2)
ip_off(data) == LoadU16(data, 6)
ip_p(data) == data[10]

\* check_packet_header without the test of the IP protocol
check_packet_header_anyproto(data, bytes) ==
    LET ihl == ip_hl(data) * 4
        drop == [ret |-> NULL, payload_len |-> NoLength]
    IN  IF ip_v(data) # 4 \/ ihl < 20 THEN drop
        ELSE IF bytes < ihl THEN drop
        ELSE IF checksum(data, 0, ihl) # 0 THEN drop
        ELSE IF bytes < ntohs(ip_len(data)) THEN drop
        ELSE IF bytes - ihl < SIZEOF_UDPHDR THEN drop
        ELSE IF ipudp_checksum(data, 0, ihl, ihl + SIZEOF_UDPHDR,
                               bytes - ihl - SIZEOF_UDPHDR) # 0 THEN drop
        ELSE [ret |-> ihl + SIZEOF_UDPHDR, payload_len |-> ntohs(ip_len(data))]

\* check_packet_header without the test of the IP header checksum
check_packet_header_nohdrsum(data, bytes) ==
    LET ihl == ip_hl(data) * 4
        drop == [ret |-> NULL, payload_len |-> NoLength]
    IN  IF ip_v(data) # 4 \/ ihl < 20 THEN drop
        ELSE IF bytes < ihl THEN drop
        ELSE IF bytes < ntohs(ip_len(data)) THEN drop
        ELSE IF ip_p(data) # IPPROTO_UDP THEN drop
        ELSE IF bytes - ihl < SIZEOF_UDPHDR THEN drop
        ELSE IF ipudp_checksum(data, 0, ihl, ihl + SIZEOF_UDPHDR,
                               bytes - ihl - SIZEOF_UDPHDR) # 0 THEN drop
        ELSE [ret |-> ihl + SIZEOF_UDPHDR, payload_len |-> ntohs(ip_len(data))]

\* data is the memory at the pointer (it may extend past `bytes`); the result is
\* the returned pointer as an offset into data, or NULL, and *payload_len
check_packet_header(data, bytes) ==
    LET ihl == ip_hl(data) * 4
        drop == [ret |-> NULL, payload_len |-> NoLength]
    IN  IF ip_v(data) # 4 \/ ihl < 20 THEN drop
        ELSE IF bytes < ihl THEN drop
        ELSE IF checksum(data, 0, ihl) # 0 THEN drop
        ELSE IF bytes < ntohs(ip_len(data)) THEN drop
        ELSE IF ip_p(data) # IPPROTO_UDP THEN drop
        ELSE IF bytes - ihl < SIZEOF_UDPHDR THEN drop
        ELSE IF ipudp_checksum(data, 0, ihl, ihl + SIZEOF_UDPHDR,
                               bytes - ihl - SIZEOF_UDPHDR) # 0 THEN drop
        ELSE [ret |-> ihl + SIZEOF_UDPHDR, payload_len |-> ntohs(ip_len(data))]

(***************************************************************************)
(* Frames as the network hands them to the raw socket                      *)
(***************************************************************************)
\* a 16-bit value in network byte order
BE16(x) == <<(x \div 256) % 256, x % 256>>

\* n bytes of value b
Fill(n, b) == [i \in 1..n |-> b]

\* the Internet checksum (RFC 1071) of a byte string, as the sending peer
\* computes it: 16-bit big-endian words, an odd last byte padded with zero
RECURSIVE OnesSum(_, _)
OnesSum(bytes, i) ==
    IF i > Len(bytes) THEN 0
    ELSE bytes[i] * 256 + (IF i < Len(bytes) THEN bytes[i + 1] ELSE 0)
            + OnesSum(bytes, i + 2)

InetChecksum(bytes) ==
    LET s0 == OnesSum(bytes, 1)
        s1 == (s0 \div U16) + (s0 % U16)
        s2 == (s1 \div U16) + (s1 % U16)
    IN  (U16 - 1) - s2

\* an IP packet as a peer puts it on the wire: header of hl words (options
\* zeroed), then an 8-byte transport header and the payload, both checksums
\* filled in by the sender
IPv4Frame(v, hl, off, proto, src, dst, sport, dport, payload) ==
    LET words == IF hl < 5 THEN 5 ELSE hl
        hlen == words * 4
        ulen == SIZEOF_UDPHDR + Len(payload)
        ip0 == <<v * 16 + hl, 0>> \o BE16(hlen + ulen) \o BE16(0) \o BE16(off)
                  \o <<IPDEFTTL, proto>> \o <<0, 0>> \o src \o dst
                  \o Fill(hlen - SIZEOF_IP, 0)
        ip == Poke(ip0, 10, BE16(InetChecksum(SubSeq(ip0, 1, hl * 4))))
        udp0 == BE16(sport) \o BE16(dport) \o BE16(ulen) \o <<0, 0>>
        pseudo == src \o dst \o <<0, proto>> \o BE16(ulen)
        udp == Poke(udp0, 6, BE16(InetChecksum(pseudo \o udp0 \o payload)))
    IN  ip \o udp \o payload

\* a server address (TEST-NET-1)
SERVER_ADDR == <<192, 0, 2, 1>>

\* payloads the FSM hands to the codec: empty, odd and even lengths
Payloads ==
    { <<>>, <<7>>, <<99, 130, 83>>, <<3, 207, 0, 0, 254, 15, 0, 0>>,
      <<1, 1, 6, 0, 222, 173, 190, 239, 0, 0>> }

Addrs == { INADDR_ANY, SERVER_ADDR, INADDR_BROADCAST }
SrcAddrs == { INADDR_ANY, SERVER_ADDR }

PeerFrames ==
    { IPv4Frame(v, hl, off, proto, SERVER_ADDR, INADDR_BROADCAST,
                DHCP_SERVER_PORT, dport, payload) :
        v \in {4, 6}, hl \in {4, 5, 6, 15},
        off \in {0, IP_DF, IP_MF, 1, IP_MF + 185},
        proto \in {IPPROTO_UDP, IPPROTO_TCP},
        dport \in {DHCP_CLIENT_PORT, DHCP_SERVER_PORT},
        payload \in {<<>>, <<99, 130, 83>>} }

(***************************************************************************)
(* BPF classifier programs                                                 *)
(*                                                                         *)
(* An instruction is [code, jt, jf, k].  32-bit values are held as signed  *)
(* two's-complement numbers, so ~0U is -1 and a k that wraps below zero is *)
(* negative.                                                               *)
(***************************************************************************)
ETHERTYPE_IP == 2048
ETHERTYPE_ARP == 2054
ARPOP_REQUEST == 1
ARPOP_REPLY == 2
ETH_HLEN == 14
BPF_ACCEPT_ALL == -1

BPF_STMT(code, k) == [code |-> code, jt |-> 0, jf |-> 0, k |-> k]
BPF_JUMP(code, k, jt, jf) == [code |-> code, jt |-> jt, jf |-> jf, k |-> k]

\* the array as the compiler initialises it (link-layer view)
dhcp_bpf_filter_init ==
    << BPF_STMT("LD+H+ABS", 12),
       BPF_JUMP("JMP+JEQ+K", ETHERTYPE_IP, 0, 8),
       BPF_STMT("LD+B+ABS", 23),
       BPF_JUMP("JMP+JEQ+K", IPPROTO_UDP, 0, 6),
       BPF_STMT("LD+H+ABS", 20),
       BPF_JUMP("JMP+JSET+K", IP_OFFMASK, 4, 0),
       BPF_STMT("LDX+B+MSH", 14),
       BPF_STMT("LD+H+IND", 16),
       BPF_JUMP("JMP+JEQ+K", DHCP_CLIENT_PORT, 0, 1),
       BPF_STMT("RET+K", BPF_ACCEPT_ALL),
       BPF_STMT("RET+K", 0) >>

arp_bpf_filter_init ==
    << BPF_STMT("LD+H+ABS", 12),
       BPF_JUMP("JMP+JEQ+K", ETHERTYPE_ARP, 0, 3),
       BPF_STMT("LD+H+ABS", 20),
       BPF_JUMP("JMP+JEQ+K", ARPOP_REPLY, 0, 1),
       BPF_STMT("RET+K", BPF_ACCEPT_ALL),
       BPF_STMT("RET+K", 0) >>

\* array[i].k -= ETH_HLEN, with i the C index
SubK(prog, i) == [prog EXCEPT ![i + 1].k = @ - ETH_HLEN]
\* array[i].jf = 0
ClearJf(prog, i) == [prog EXCEPT ![i + 1].jf = 0]

\* the patch without the adjustment of the indexed load of the port
MassageDhcpNoInd(prog) == SubK(SubK(SubK(ClearJf(prog, 1), 2), 4), 6)
\* the patch without the adjustment of the load of the fragment field
MassageDhcpNoFrag(prog) == SubK(SubK(SubK(ClearJf(prog, 1), 2), 6), 7)
\* the massage of dhcp_bpf_filter for cooked packets
MassageDhcp(prog) == SubK(SubK(SubK(SubK(ClearJf(prog, 1), 2), 4), 6), 7)

\* the patch without the adjustment of the load of the ARP operation
MassageArpNoOp(prog) == ClearJf(prog, 1)
\* the massage of arp_bpf_filter for cooked packets
MassageArp(prog) == SubK(ClearJf(prog, 1), 2)

\* The kernel's interpreter on packet pkt (the bytes from the network header
\* on, as a SOCK_DGRAM packet socket presents them): a load outside the packet
\* ends the run with 0; loads are big-endian.
RECURSIVE BpfStep(_, _, _, _, _)
BpfStep(prog, pkt, ip, A, X) ==
    IF ip > Len(prog) THEN 0
    ELSE LET ins == prog[ip]
             inH(o) == o >= 0 /\ o + 2 <= Len(pkt)
             inB(o) == o >= 0 /\ o + 1 <= Len(pkt)
             half(o) == pkt[o + 1] * 256 + pkt[o + 2]
         IN  CASE ins.code = "LD+H+ABS" ->
                    IF inH(ins.k) THEN BpfStep(prog, pkt, ip + 1, half(ins.k), X) ELSE 0
               [] ins.code = "LD+B+ABS" ->
                    IF inB(ins.k) THEN BpfStep(prog, pkt, ip + 1, pkt[ins.k + 1], X) ELSE 0
               [] ins.code = "LD+H+IND" ->
                    IF inH(X + ins.k) THEN BpfStep(prog, pkt, ip + 1, half(X + ins.k), X) ELSE 0
               [] ins.code = "LDX+B+MSH" ->
                    IF inB(ins.k) THEN BpfStep(prog, pkt, ip + 1, A, 4 * (pkt[ins.k + 1] % 16)) ELSE 0
               [] ins.code = "JMP+JEQ+K" ->
                    BpfStep(prog, pkt, ip + 1 + (IF A = ins.k THEN ins.jt ELSE ins.jf), A, X)
               [] ins.code = "JMP+JSET+K" ->
                    BpfStep(prog, pkt, ip + 1 + (IF And16(A, ins.k) # 0 THEN ins.jt ELSE ins.jf), A, X)
               [] ins.code = "RET+K" -> ins.k
               [] OTHER -> 0

BpfRun(prog, pkt) == BpfStep(prog, pkt, 1, 0, 0)

\* an ARP packet for IPv4 over Ethernet: 28 bytes
ArpFrame(op, sha, spa, tha, tpa) ==
    BE16(1) \o BE16(ETHERTYPE_IP) \o <<6, 4>> \o BE16(op) \o sha \o spa \o tha \o tpa

(***************************************************************************)
(* Capture handle and the DHCP / ARP adapters                              *)
(***************************************************************************)
\* receive buffer size when the device reports no MTU (scaled down)
MTU_MAX == 40
\* the MTU a device reports (scaled down)
DevMtu == 32
\* at most this many ni_capture_t are ever allocated
MaxCaptures == 3

NoDev == "NULL"
DevPtr == "dev"

\* a link-layer frame: EtherType and the bytes from the network header on
LinkFrame(ethertype, data) == [ethertype |-> ethertype, data |-> data]
NoFrame == LinkFrame(0, <<>>)

HW_BROADCAST == <<255, 255, 255, 255, 255, 255>>
CLIENT_HW == <<2, 0, 0, 0, 0, 1>>
SERVER_HW == <<2, 0, 0, 0, 0, 2>>

\* ni_link_address_get_broadcast: known for Ethernet only
ni_link_address_get_broadcast(iftype) ==
    IF iftype = "ether" THEN [rv |-> 0, len |-> 6, data |-> HW_BROADCAST]
                        ELSE [rv |-> -1, len |-> 0, data |-> <<>>]

\* the ni_socket_t ni_socket_wrap returns for a new fd
ni_socket_wrap(protocol) ==
    [ open |-> TRUE, error |-> FALSE, active |-> FALSE,
      protocol |-> protocol, filter |-> <<>>, bound |-> 0,
      data_ready |-> "NULL", user_data |-> NULL,
      get_timeout |-> "NULL", check_timeout |-> "NULL" ]

\* the stores of lines 475-483 with sll_protocol left in host byte order
NewCaptureHostOrder(h, d, protocol, brdaddr) ==
    [ live |-> TRUE, dev |-> NoDev,
      sock |-> ni_socket_wrap(htons(protocol)),
      protocol |-> protocol,
      sll |-> [ family |-> "AF_PACKET", protocol |-> protocol,
                ifindex |-> d.system.ifindex, hatype |-> htons(d.system.arp_type),
                halen |-> brdaddr.len, addr |-> brdaddr.data ],
      buffer |-> <<>>, mtu |-> 0,
      others_live |-> Cardinality({i \in 1..Len(h) : h[i].live}) ]

\* calloc(1, sizeof(*capture)) followed by the stores of lines 475-483;
\* others_live is history: the captures not yet freed at this allocation
NewCapture(h, d, protocol, brdaddr) ==
    [ live |-> TRUE, dev |-> NoDev,
      sock |-> ni_socket_wrap(htons(protocol)),
      protocol |-> protocol,
      sll |-> [ family |-> "AF_PACKET", protocol |-> htons(protocol),
                ifindex |-> d.system.ifindex, hatype |-> htons(d.system.arp_type),
                halen |-> brdaddr.len, addr |-> brdaddr.data ],
      buffer |-> <<>>, mtu |-> 0,
      others_live |-> Cardinality({i \in 1..Len(h) : h[i].live}) ]

\* what is left of a ni_capture_t after free(): nothing the program may use
FreedCapture ==
    [ live |-> FALSE, dev |-> NoDev,
      sock |-> [ni_socket_wrap(0) EXCEPT !.open = FALSE],
      protocol |-> 0,
      sll |-> [ family |-> "", protocol |-> 0, ifindex |-> 0, hatype |-> 0,
                halen |-> 0, addr |-> <<>> ],
      buffer |-> <<>>, mtu |-> 0, others_live |-> 0 ]

\* ni_capture_free without ni_socket_close: the memory is released, the fd
\* stays open and in the event loop
capture_free_keeps_socket(h, c) ==
    [h EXCEPT ![c] = [FreedCapture EXCEPT !.sock.open = TRUE,
                                          !.sock.active = h[c].sock.active]]

\* ni_capture_free: ni_socket_close (the fd is closed and leaves the event
\* loop), free(buffer), free(capture)
ni_capture_free(h, c) == [h EXCEPT ![c] = FreedCapture]

\* the patch applied by every call, as if the `done` test were absent
SetFilterStateEveryCall(dn, dhcp, arp) ==
    [done |-> 1, dhcp |-> MassageDhcp(dhcp), arp |-> MassageArp(arp)]

\* the first call patches both arrays; every call selects the array for protocol
SetFilterState(dn, dhcp, arp) ==
    IF dn = 0 THEN [done |-> 1, dhcp |-> MassageDhcp(dhcp), arp |-> MassageArp(arp)]
              ELSE [done |-> dn, dhcp |-> dhcp, arp |-> arp]

\* ni_capture_set_filter(cap, protocol); attach_ok is the outcome of
\* setsockopt(SO_ATTACH_FILTER).  The result carries the new statics, the
\* capture and the return value.
ni_capture_set_filter(cap, protocol, attach_ok, dn, dhcp, arp) ==
    LET st == SetFilterState(dn, dhcp, arp)
        pf == IF protocol = ETHERTYPE_ARP THEN st.arp ELSE st.dhcp
    IN  [ done |-> st.done, dhcp |-> st.dhcp, arp |-> st.arp,
          cap |-> IF attach_ok THEN [cap EXCEPT !.sock.filter = pf] ELSE cap,
          rv |-> IF attach_ok THEN 0 ELSE -1 ]

\* ni_capture_open(dev, protocol, data_ready).  sys gives the outcome of each
\* system call: [socket, attach, bind: BOOLEAN, stale: byte malloc memory holds].
\* The result carries the returned pointer (an index into heap, or NULL), the
\* heap, the statics and the number of SO_ATTACH_FILTER calls made.
ni_capture_open(h, d, protocol, data_ready, sys, dn, dhcp, arp) ==
    LET brdaddr == ni_link_address_get_broadcast(d.system.iftype)
        same == [ capture |-> NULL, heap |-> h, done |-> dn, dhcp |-> dhcp,
                  arp |-> arp, attach |-> 0 ]
    IN  IF d.system.ifindex = 0 THEN same
        ELSE IF brdaddr.rv < 0 THEN same
        ELSE IF ~sys.socket THEN same
        ELSE
          LET c == Len(h) + 1
              cap0 == NewCapture(h, d, protocol, brdaddr)
              f == ni_capture_set_filter(cap0, protocol, sys.attach, dn, dhcp, arp)
              failed(cap) == [ capture |-> NULL,
                               heap |-> ni_capture_free(Append(h, cap), c),
                               done |-> f.done, dhcp |-> f.dhcp, arp |-> f.arp,
                               attach |-> 1 ]
          IN  IF f.rv < 0 THEN failed(f.cap)
              ELSE IF ~sys.bind THEN failed(f.cap)
              ELSE
                LET mtu == IF d.system.mtu = 0 THEN MTU_MAX ELSE d.system.mtu
                    cap1 == [f.cap EXCEPT
                                !.sock.bound = d.system.ifindex,
                                !.mtu = mtu,
                                !.buffer = Fill(mtu, sys.stale),
                                !.sock.data_ready = data_ready,
                                !.sock.user_data = c,
                                !.sock.active = TRUE]
                IN  [ capture |-> c, heap |-> Append(h, cap1),
                      done |-> f.done, dhcp |-> f.dhcp, arp |-> f.arp,
                      attach |-> 1 ]

\* __ni_dhcp_common_open without the release of the capture it replaces
common_open_leak(h, d, protocol, data_ready, sys, dn, dhcp, arp) ==
    LET same == [ rv |-> 0, dev |-> d, heap |-> h, done |-> dn, dhcp |-> dhcp,
                  arp |-> arp, attach |-> 0 ]
        reuse == /\ d.capture # NULL
                 /\ ~h[d.capture].sock.error
                 /\ h[d.capture].protocol = protocol
    IN  IF reuse THEN same
        ELSE
          LET d1 == [d EXCEPT !.capture = NULL]
              o == ni_capture_open(h, d1, protocol, data_ready, sys, dn, dhcp, arp)
          IN  IF o.capture = NULL
              THEN [ rv |-> -1, dev |-> d1, heap |-> o.heap, done |-> o.done,
                     dhcp |-> o.dhcp, arp |-> o.arp, attach |-> o.attach ]
              ELSE [ rv |-> 0,
                     dev |-> [d1 EXCEPT !.capture = o.capture],
                     heap |-> [o.heap EXCEPT
                                 ![o.capture].sock.get_timeout = "__ni_dhcp_socket_get_timeout",
                                 ![o.capture].sock.check_timeout = "__ni_dhcp_socket_check_timeout",
                                 ![o.capture].dev = DevPtr],
                     done |-> o.done, dhcp |-> o.dhcp, arp |-> o.arp,
                     attach |-> o.attach ]

\* __ni_dhcp_common_open with a reuse test that does not look at sock->error
common_open_keep_error(h, d, protocol, data_ready, sys, dn, dhcp, arp) ==
    LET same == [ rv |-> 0, dev |-> d, heap |-> h, done |-> dn, dhcp |-> dhcp,
                  arp |-> arp, attach |-> 0 ]
        reuse == /\ d.capture # NULL
                 /\ h[d.capture].protocol = protocol
    IN  IF reuse THEN same
        ELSE
          LET h1 == IF d.capture # NULL THEN ni_capture_free(h, d.capture) ELSE h
              d1 == [d EXCEPT !.capture = NULL]
              o == ni_capture_open(h1, d1, protocol, data_ready, sys, dn, dhcp, arp)
          IN  IF o.capture = NULL
              THEN [ rv |-> -1, dev |-> d1, heap |-> o.heap, done |-> o.done,
                     dhcp |-> o.dhcp, arp |-> o.arp, attach |-> o.attach ]
              ELSE [ rv |-> 0,
                     dev |-> [d1 EXCEPT !.capture = o.capture],
                     heap |-> [o.heap EXCEPT
                                 ![o.capture].sock.get_timeout = "__ni_dhcp_socket_get_timeout",
                                 ![o.capture].sock.check_timeout = "__ni_dhcp_socket_check_timeout",
                                 ![o.capture].dev = DevPtr],
                     done |-> o.done, dhcp |-> o.dhcp, arp |-> o.arp,
                     attach |-> o.attach ]

\* __ni_dhcp_common_open(dev, protocol, data_ready): the result carries the
\* return value, the device, the heap, the statics and the number of
\* SO_ATTACH_FILTER calls made.  capture->sock is non-NULL in every capture
\* ni_capture_open returns, so `sock &&` holds of every installed capture.
__ni_dhcp_common_open(h, d, protocol, data_ready, sys, dn, dhcp, arp) ==
    LET same == [ rv |-> 0, dev |-> d, heap |-> h, done |-> dn, dhcp |-> dhcp,
                  arp |-> arp, attach |-> 0 ]
        reuse == /\ d.capture # NULL
                 /\ ~h[d.capture].sock.error
                 /\ h[d.capture].protocol = protocol
    IN  IF reuse THEN same
        ELSE
          LET h1 == IF d.capture # NULL THEN ni_capture_free(h, d.capture) ELSE h
              d1 == [d EXCEPT !.capture = NULL]
              o == ni_capture_open(h1, d1, protocol, data_ready, sys, dn, dhcp, arp)
          IN  IF o.capture = NULL
              THEN [ rv |-> -1, dev |-> d1, heap |-> o.heap, done |-> o.done,
                     dhcp |-> o.dhcp, arp |-> o.arp, attach |-> o.attach ]
              ELSE [ rv |-> 0,
                     dev |-> [d1 EXCEPT !.capture = o.capture],
                     heap |-> [o.heap EXCEPT
                                 ![o.capture].sock.get_timeout = "__ni_dhcp_socket_get_timeout",
                                 ![o.capture].sock.check_timeout = "__ni_dhcp_socket_check_timeout",
                                 ![o.capture].dev = DevPtr],
                     done |-> o.done, dhcp |-> o.dhcp, arp |-> o.arp,
                     attach |-> o.attach ]

(***************************************************************************)
(* The codec pipeline: build, transit, receive                             *)
(***************************************************************************)
\* size of the receive buffer (capture->mtu) in the codec pipeline
CodecMtu == 48
\* at most this many bytes of link padding follow a frame
MaxPad == 2
\* what malloc'ed, never written memory may hold
StaleBytes == {0, 69}

NoRx == [ret |-> NULL, payload_len |-> NoLength, bytes |-> 0]

CodecInit ==
    /\ hostBE \in BOOLEAN
    /\ pc = "idle"
    /\ bp = <<>>
    /\ tx = [payload |-> <<>>, src |-> INADDR_ANY, dst |-> INADDR_ANY]
    /\ via = "none"
    /\ wire = <<>>
    /\ buffer \in { Fill(CodecMtu, b) : b \in StaleBytes }
    /\ rx = NoRx
    /\ done = 0
    /\ dhcp_bpf_filter = <<>>
    /\ arp_bpf_filter = <<>>
    /\ dev = [capture |-> NULL]
    /\ heap = <<>>
    /\ last = [op |-> "none"]

\* the FSM hands a message body to ni_dhcp_build_send_header
BuildSend(payload, src, dst) ==
    /\ pc = "idle"
    /\ tx' = [payload |-> payload, src |-> src, dst |-> dst]
    /\ bp' = ni_dhcp_build_send_header(payload, src, dst)
    /\ pc' = "built"
    /\ UNCHANGED <<hostBE, via, wire, buffer, rx>>
    /\ UNCHANGED captureVars

\* the built packet arrives as sent
TransitIntact ==
    /\ pc = "built"
    /\ wire' = bp
    /\ via' = "intact"
    /\ pc' = "wire"
    /\ UNCHANGED <<hostBE, bp, tx, buffer, rx>>
    /\ UNCHANGED captureVars

\* one bit of the built packet is inverted in transit
TransitFlip(i, k) ==
    /\ pc = "built"
    /\ i \in 1..Len(bp)
    /\ wire' = [bp EXCEPT ![i] = FlipBit(bp[i], k)]
    /\ via' = "flip"
    /\ pc' = "wire"
    /\ UNCHANGED <<hostBE, bp, tx, buffer, rx>>
    /\ UNCHANGED captureVars

\* the link appends n padding bytes of value b
TransitPad(n, b) ==
    /\ pc = "built"
    /\ wire' = bp \o Fill(n, b)
    /\ via' = "pad"
    /\ pc' = "wire"
    /\ UNCHANGED <<hostBE, bp, tx, buffer, rx>>
    /\ UNCHANGED captureVars

\* only the first n bytes arrive
TransitCut(n) ==
    /\ pc = "built"
    /\ n < Len(bp)
    /\ wire' = SubSeq(bp, 1, n)
    /\ via' = "cut"
    /\ pc' = "wire"
    /\ UNCHANGED <<hostBE, bp, tx, buffer, rx>>
    /\ UNCHANGED captureVars

\* a packet of some peer arrives
TransitPeer(f) ==
    /\ pc = "idle"
    /\ wire' = f
    /\ via' = "peer"
    /\ pc' = "wire"
    /\ UNCHANGED <<hostBE, bp, tx, buffer, rx>>
    /\ UNCHANGED captureVars

\* read(fd, buffer, mtu) of a datagram: at most mtu bytes are stored
ReadInto(buf, frame) ==
    LET n == IF Len(frame) < Len(buf) THEN Len(frame) ELSE Len(buf)
    IN  [bytes |-> n, buffer |-> Poke(buf, 0, SubSeq(frame, 1, n))]

\* read() followed by check_packet_header, as ni_dhcp_socket_recv runs them
CodecRecv ==
    /\ pc = "wire"
    /\ LET r == ReadInto(buffer, wire)
           c == check_packet_header(r.buffer, r.bytes)
       IN  /\ buffer' = r.buffer
           /\ rx' = [ret |-> c.ret, payload_len |-> c.payload_len, bytes |-> r.bytes]
    /\ pc' = "checked"
    /\ UNCHANGED <<hostBE, bp, tx, via, wire>>
    /\ UNCHANGED captureVars

CodecNext ==
    \/ \E p \in Payloads, s \in SrcAddrs, d \in Addrs : BuildSend(p, s, d)
    \/ TransitIntact
    \/ \E i \in 1..Len(bp), k \in 0..7 : TransitFlip(i, k)
    \/ \E n \in 1..MaxPad, b \in {0, 170} : TransitPad(n, b)
    \/ \E n \in {0, 19, 27} : TransitCut(n)
    \/ pc = "idle" /\ \E f \in PeerFrames : TransitPeer(f)
    \/ CodecRecv

SpecCodec == CodecInit /\ [][CodecNext]_vars

(***************************************************************************)
(* Properties of the codec pipeline (checked under SpecCodec)              *)
(***************************************************************************)
\* the packet in the receive buffer, as the wire format defines its fields
RxHeaderLen == (buffer[1] % 16) * 4
RxTotalLen == buffer[3] * 256 + buffer[4]
RxPseudo ==
    SubSeq(buffer, 13, 20) \o <<0, buffer[10]>>
        \o SubSeq(buffer, RxHeaderLen + 5, RxHeaderLen + 6)
Accepted == pc = "checked" /\ rx.ret # NULL
Dropped == pc = "checked" /\ rx.ret = NULL

\* C1: a packet built from a payload of length L <= MTU - 28 with dst # 0.0.0.0
\* and received as sent is accepted, the returned pointer addresses the payload
\* bytes, and the returned payload length is L.
C1_RoundTrip ==
    (pc = "checked" /\ via = "intact" /\ tx.dst # INADDR_ANY
        /\ Len(tx.payload) <= CodecMtu - (SIZEOF_IP + SIZEOF_UDPHDR))
    => /\ rx.ret # NULL
       /\ SubSeq(buffer, rx.ret + 1, rx.ret + Len(tx.payload)) = tx.payload
       /\ rx.payload_len = Len(tx.payload)

\* C4: check_packet_header returns a payload only if the version is 4, IHL >= 5,
\* the received length covers the IP total length, the IP header checksum is
\* zero, the protocol is UDP and the checksum over pseudo-header, UDP header and
\* the following bytes is zero; a dropped packet produces no payload length.
C4_IngressGate ==
    /\ Accepted =>
         /\ buffer[1] \div 16 = 4
         /\ buffer[1] % 16 >= 5
         /\ rx.bytes >= RxTotalLen
         /\ InetChecksum(SubSeq(buffer, 1, RxHeaderLen)) = 0
         /\ buffer[10] = IPPROTO_UDP
         /\ InetChecksum(RxPseudo \o SubSeq(buffer, RxHeaderLen + 1, rx.bytes)) = 0
    /\ Dropped => rx.payload_len = NoLength

C4_Witness == Accepted /\ via = "peer" /\ buffer[1] % 16 = 6

\* C5: the built packet is 28 bytes longer than the payload and carries version 4,
\* IHL 5, TOS 0x10, ID 0, DF with offset 0, the default TTL, protocol UDP, total
\* length L+28, the given source, the given destination (limited broadcast for
\* 0.0.0.0), ports 68 -> 67 and UDP length L+8, followed by the unchanged payload.
C5_HeaderFields ==
    (pc # "idle" /\ via # "peer") =>
        LET L == Len(tx.payload) IN
        /\ Len(bp) = L + 28
        /\ SubSeq(bp, 1, 2) = <<69, 16>>
        /\ SubSeq(bp, 3, 4) = BE16(L + 28)
        /\ SubSeq(bp, 5, 6) = <<0, 0>>
        /\ SubSeq(bp, 7, 8) = <<64, 0>>
        /\ SubSeq(bp, 9, 10) = <<IPDEFTTL, IPPROTO_UDP>>
        /\ SubSeq(bp, 13, 16) = tx.src
        /\ SubSeq(bp, 17, 20) = (IF tx.dst = INADDR_ANY THEN INADDR_BROADCAST ELSE tx.dst)
        /\ SubSeq(bp, 21, 22) = BE16(68)
        /\ SubSeq(bp, 23, 24) = BE16(67)
        /\ SubSeq(bp, 25, 26) = BE16(L + 8)
        /\ SubSeq(bp, 29, Len(bp)) = tx.payload

C5_Witness == pc = "built" /\ tx.dst = INADDR_ANY /\ Len(tx.payload) = 3

\* C6: in every built packet the checksum over the 20-byte IP header, stored
\* ip_sum included, is zero, and so is the checksum over the pseudo-header, the
\* UDP header with the stored uh_sum and the payload: as the code's own fold of
\* the partial sums and as the Internet checksum of the bytes on the wire.
C6_SelfChecksummed ==
    (pc # "idle" /\ via # "peer") =>
        /\ checksum_fold(checksum_partial(0, bp, 0, SIZEOF_IP)) = 0
        /\ ipudp_checksum(bp, 0, SIZEOF_IP, SIZEOF_IP + SIZEOF_UDPHDR, Len(tx.payload)) = 0
        /\ InetChecksum(SubSeq(bp, 1, SIZEOF_IP)) = 0
        /\ InetChecksum(SubSeq(bp, 13, 20) \o <<0, IPPROTO_UDP>> \o SubSeq(bp, 25, 26)
                            \o SubSeq(bp, 21, Len(bp))) = 0

C6_Witness == pc = "built" /\ Len(tx.payload) = 1

\* the receive buffer with bit k of byte i inverted
RxFlipped(i, k) == [buffer EXCEPT ![i] = FlipBit(buffer[i], k)]

\* C7 as stated: every single-bit flip in the IP header or the UDP header of an
\* accepted packet yields a packet that is dropped.
C7_AnyHeaderBitFlipDropped ==
    Accepted =>
        \A i \in 1..(RxHeaderLen + SIZEOF_UDPHDR), k \in 0..7 :
            check_packet_header(RxFlipped(i, k), rx.bytes).ret = NULL

\* C7 amended: every single-bit flip in the IP header or the UDP header of an
\* accepted packet, other than a flip of one of the four IHL bits, yields a packet
\* that is dropped; so does a flip of an IHL bit that makes IHL less than 5.
C7_HeaderBitFlipDropped ==
    Accepted =>
        \A i \in 1..(RxHeaderLen + SIZEOF_UDPHDR), k \in 0..7 :
            (i # 1 \/ k >= 4 \/ FlipBit(buffer[1], k) % 16 < 5)
                => check_packet_header(RxFlipped(i, k), rx.bytes).ret = NULL

\* a flipped header bit of a built packet was received and dropped
C7_Witness ==
    /\ Dropped /\ via = "flip"
    /\ \E i \in 1..(SIZEOF_IP + SIZEOF_UDPHDR) : wire[i] # bp[i]

(***************************************************************************)
(* The adapters in the event loop                                          *)
(***************************************************************************)
\* frames on the link of the device
OFFER_BODY == <<99, 130, 83>>
Offer(off, proto, dport) ==
    IPv4Frame(4, 5, off, proto, SERVER_ADDR, INADDR_BROADCAST,
              DHCP_SERVER_PORT, dport, OFFER_BODY)
ArpFrom(op) ==
    ArpFrame(op, SERVER_HW, SERVER_ADDR, CLIENT_HW, <<192, 0, 2, 7>>)

LinkFrames ==
    { LinkFrame(ETHERTYPE_IP, Offer(0, IPPROTO_UDP, DHCP_CLIENT_PORT)),
      LinkFrame(ETHERTYPE_IP, Offer(IP_MF, IPPROTO_UDP, DHCP_CLIENT_PORT)),
      LinkFrame(ETHERTYPE_IP, Offer(1, IPPROTO_UDP, DHCP_CLIENT_PORT)),
      LinkFrame(ETHERTYPE_IP, Offer(0, IPPROTO_UDP, DHCP_SERVER_PORT)),
      LinkFrame(ETHERTYPE_IP, Offer(0, IPPROTO_TCP, DHCP_CLIENT_PORT)),
      LinkFrame(ETHERTYPE_IP,
                [Offer(0, IPPROTO_UDP, DHCP_CLIENT_PORT) EXCEPT ![29] = 98]),
      LinkFrame(ETHERTYPE_ARP, ArpFrom(ARPOP_REPLY)),
      LinkFrame(ETHERTYPE_ARP, ArpFrom(ARPOP_REQUEST)) }

\* what the kernel queues on a packet socket: frames of the socket's protocol
\* that its attached filter does not reject
KernelAccepts(sock, f) ==
    /\ sock.open
    /\ sock.protocol = htons(f.ethertype)
    /\ (sock.filter = <<>> \/ BpfRun(sock.filter, f.data) # 0)

\* struct timeval values: the cleared one, one with microseconds only, and
\* pairs that differ in the seconds, in the microseconds, or in both
Timeval(sec, usec) == [tv_sec |-> sec, tv_usec |-> usec]
Timevals ==
    { Timeval(0, 0), Timeval(0, 500000), Timeval(7, 0), Timeval(7, 500000),
      Timeval(8, 200000) }

\* timerclear(tv)
timerclear == [tv_sec |-> 0, tv_usec |-> 0]
\* timerisset(tv)
timerisset(tv) == tv.tv_sec # 0 \/ tv.tv_usec # 0
\* timercmp(a, b, <=), which fires a deadline equal to now
timercmp_le(a, b) ==
    IF a.tv_sec = b.tv_sec THEN a.tv_usec <= b.tv_usec ELSE a.tv_sec < b.tv_sec
\* timercmp(a, b, <)
timercmp_lt(a, b) ==
    IF a.tv_sec = b.tv_sec THEN a.tv_usec < b.tv_usec ELSE a.tv_sec < b.tv_sec

NoOp ==
    [ op |-> "none", ret |-> 0, udp_socket |-> 0, udp_bind |-> 0, attach |-> 0,
      frame |-> NoFrame, bytes |-> 0, fsm |-> "none",
      reader_off |-> 0, reader_len |-> 0,
      tv |-> [tv_sec |-> 0, tv_usec |-> 0], now |-> [tv_sec |-> 0, tv_usec |-> 0],
      retransmit |-> 0 ]

DeviceConfigs ==
    { [ifindex |-> i, iftype |-> t, arp_type |-> 1, mtu |-> m] :
        i \in {0, 2}, t \in {"ether", "void"}, m \in {0, DevMtu} }

Init ==
    /\ hostBE \in BOOLEAN
    /\ pc = "idle"
    /\ bp = <<>>
    /\ tx = [payload |-> <<>>, src |-> INADDR_ANY, dst |-> INADDR_ANY]
    /\ via = "none"
    /\ wire = <<>>
    /\ buffer = <<>>
    /\ rx = NoRx
    /\ done = 0
    /\ dhcp_bpf_filter = dhcp_bpf_filter_init
    /\ arp_bpf_filter = arp_bpf_filter_init
    /\ \E cfg \in DeviceConfigs :
          dev = [ifname |-> "eth0", system |-> cfg, listen_fd |-> -1, capture |-> NULL,
                 retrans |-> [deadline |-> timerclear]]
    /\ heap = <<>>
    /\ last = NoOp

\* outcomes of the system calls of ni_capture_open: the first call that fails,
\* or none, and what the malloc'ed buffer holds
SysOutcomes ==
    { [socket |-> FALSE, attach |-> TRUE, bind |-> TRUE, stale |-> 0],
      [socket |-> TRUE, attach |-> FALSE, bind |-> TRUE, stale |-> 0],
      [socket |-> TRUE, attach |-> TRUE, bind |-> FALSE, stale |-> 0] }
    \cup { [socket |-> TRUE, attach |-> TRUE, bind |-> TRUE, stale |-> b] :
              b \in StaleBytes }

\* an open may allocate one ni_capture_t
HeapRoom == Len(heap) < MaxCaptures

\* ni_dhcp_socket_open(dev).  udp is the outcome of the dummy socket's system
\* calls: "socket_fails", "bind_fails" or "ok".  last.udp_socket is 1 when a UDP
\* socket was created, -1 when socket() failed, 0 when none was asked for.
ni_dhcp_socket_open(udp, sys) ==
    /\ HeapRoom
    /\ IF dev.listen_fd = -1 /\ udp = "socket_fails"
       THEN /\ last' = [NoOp EXCEPT !.op = "ni_dhcp_socket_open", !.ret = -1,
                                     !.udp_socket = -1]
            /\ UNCHANGED <<done, dhcp_bpf_filter, arp_bpf_filter, dev, heap>>
       ELSE LET fd == 3
                tried == dev.listen_fd = -1
                d0 == IF tried /\ udp = "ok" THEN [dev EXCEPT !.listen_fd = fd] ELSE dev
            IN  \E r \in { __ni_dhcp_common_open(heap, d0, ETHERTYPE_IP,
                              "ni_dhcp_socket_recv", sys, done,
                              dhcp_bpf_filter, arp_bpf_filter) } :
                /\ dev' = r.dev
                /\ heap' = r.heap
                /\ done' = r.done
                /\ dhcp_bpf_filter' = r.dhcp
                /\ arp_bpf_filter' = r.arp
                /\ last' = [NoOp EXCEPT !.op = "ni_dhcp_socket_open", !.ret = r.rv,
                                         !.udp_socket = IF tried THEN 1 ELSE 0,
                                         !.udp_bind = IF tried /\ udp = "ok" THEN 1 ELSE 0,
                                         !.attach = r.attach]
    /\ UNCHANGED codecVars

\* ni_arp_socket_open(dev)
ni_arp_socket_open(sys) ==
    /\ HeapRoom
    /\ \E r \in { __ni_dhcp_common_open(heap, dev, ETHERTYPE_ARP,
                      "ni_arp_socket_recv", sys, done,
                      dhcp_bpf_filter, arp_bpf_filter) } :
           /\ dev' = r.dev
           /\ heap' = r.heap
           /\ done' = r.done
           /\ dhcp_bpf_filter' = r.dhcp
           /\ arp_bpf_filter' = r.arp
           /\ last' = [NoOp EXCEPT !.op = "ni_arp_socket_open", !.ret = r.rv,
                                    !.attach = r.attach]
    /\ UNCHANGED codecVars

\* the event loop flags a read or write failure on the capture's socket
SocketError ==
    /\ dev.capture # NULL
    /\ heap[dev.capture].sock.active
    /\ ~heap[dev.capture].sock.error
    /\ heap' = [heap EXCEPT ![dev.capture].sock.error = TRUE]
    /\ last' = [NoOp EXCEPT !.op = "socket_error"]
    /\ UNCHANGED <<done, dhcp_bpf_filter, arp_bpf_filter, dev>>
    /\ UNCHANGED codecVars

\* ni_dhcp_socket_recv without the test of check_packet_header's result
dhcp_recv_unchecked(c, f) ==
    LET r == ReadInto(heap[c].buffer, f.data)
    IN  /\ heap' = [heap EXCEPT ![c].buffer = r.buffer]
        /\ last' = [NoOp EXCEPT !.op = "ni_dhcp_socket_recv", !.frame = f,
                                 !.bytes = r.bytes,
                                 !.fsm = "ni_dhcp_fsm_process_dhcp_packet",
                                 !.reader_off = SIZEOF_IP + SIZEOF_UDPHDR,
                                 !.reader_len = r.bytes]

\* ni_dhcp_socket_recv(sock) with frame f next in the socket's queue
ni_dhcp_socket_recv(c, f) ==
    LET r == ReadInto(heap[c].buffer, f.data)
        chk == check_packet_header(r.buffer, r.bytes)
    IN  /\ heap' = [heap EXCEPT ![c].buffer = r.buffer]
        /\ last' = [NoOp EXCEPT !.op = "ni_dhcp_socket_recv", !.frame = f,
                                 !.bytes = r.bytes,
                                 !.fsm = IF chk.ret = NULL THEN "none"
                                         ELSE "ni_dhcp_fsm_process_dhcp_packet",
                                 !.reader_off = IF chk.ret = NULL THEN 0 ELSE chk.ret,
                                 !.reader_len = IF chk.ret = NULL THEN 0 ELSE chk.payload_len]

\* ni_arp_socket_recv(sock) with frame f next in the socket's queue
ni_arp_socket_recv(c, f) ==
    LET r == ReadInto(heap[c].buffer, f.data)
    IN  /\ heap' = [heap EXCEPT ![c].buffer = r.buffer]
        /\ last' = [NoOp EXCEPT !.op = "ni_arp_socket_recv", !.frame = f,
                                 !.bytes = r.bytes,
                                 !.fsm = "ni_dhcp_fsm_process_arp_packet",
                                 !.reader_off = 0,
                                 !.reader_len = heap[c].mtu]

\* the event loop finds the socket readable and runs its data_ready callback
DataReady(f) ==
    /\ dev.capture # NULL
    /\ LET c == dev.capture
           sock == heap[c].sock
       IN  /\ sock.active
           /\ KernelAccepts(sock, f)
           /\ IF sock.data_ready = "ni_dhcp_socket_recv"
              THEN ni_dhcp_socket_recv(sock.user_data, f)
              ELSE ni_arp_socket_recv(sock.user_data, f)
    /\ UNCHANGED <<done, dhcp_bpf_filter, arp_bpf_filter, dev>>
    /\ UNCHANGED codecVars

\* the callback runs and read() returns -1
DataReadyReadFails ==
    /\ dev.capture # NULL
    /\ heap[dev.capture].sock.active
    /\ last' = [NoOp EXCEPT !.op = heap[dev.capture].sock.data_ready, !.bytes = -1]
    /\ UNCHANGED <<done, dhcp_bpf_filter, arp_bpf_filter, dev, heap>>
    /\ UNCHANGED codecVars

\* get_timeout with the time of seconds only taken for the deadline being set
get_timeout_seconds(h, d, sock, tv_in) ==
    IF sock.user_data = NULL THEN [rv |-> -1, tv |-> tv_in]
    ELSE IF h[sock.user_data].dev = NoDev THEN [rv |-> -1, tv |-> tv_in]
    ELSE LET tv == IF d.retrans.deadline.tv_sec # 0 THEN d.retrans.deadline
                                                     ELSE timerclear
         IN  [rv |-> IF timerisset(tv) THEN 0 ELSE -1, tv |-> tv]

\* __ni_dhcp_socket_get_timeout(sock, tv); tv_in is what *tv holds on entry, d
\* the device capture->dev points to.  The result carries the return value and
\* *tv.
__ni_dhcp_socket_get_timeout(h, d, sock, tv_in) ==
    IF sock.user_data = NULL THEN [rv |-> -1, tv |-> tv_in]
    ELSE IF h[sock.user_data].dev = NoDev THEN [rv |-> -1, tv |-> tv_in]
    ELSE LET tv == IF timerisset(d.retrans.deadline) THEN d.retrans.deadline
                                                      ELSE timerclear
         IN  [rv |-> IF timerisset(tv) THEN 0 ELSE -1, tv |-> tv]

\* __ni_dhcp_socket_check_timeout(sock, now): the number of calls of
\* ni_dhcp_device_retransmit(dev) it makes
__ni_dhcp_socket_check_timeout(h, d, sock, now) ==
    IF sock.user_data = NULL THEN 0
    ELSE IF h[sock.user_data].dev = NoDev THEN 0
    ELSE IF timerisset(d.retrans.deadline) /\ timercmp_lt(d.retrans.deadline, now)
         THEN 1 ELSE 0

\* the event loop asks the capture socket for its next wakeup
GetTimeout(tv_in) ==
    /\ dev.capture # NULL
    /\ LET sock == heap[dev.capture].sock
       IN  /\ sock.active
           /\ sock.get_timeout = "__ni_dhcp_socket_get_timeout"
           /\ \E r \in { __ni_dhcp_socket_get_timeout(heap, dev, sock, tv_in) } :
                 last' = [NoOp EXCEPT !.op = "get_timeout", !.ret = r.rv, !.tv = r.tv]
    /\ UNCHANGED <<done, dhcp_bpf_filter, arp_bpf_filter, dev, heap>>
    /\ UNCHANGED codecVars

\* the event loop calls check_timeout at time now; when the hook calls the FSM's
\* ni_dhcp_device_retransmit, that leaves the deadline as it is or, with rearm
\* FALSE, cleared
CheckTimeout(now, rearm) ==
    /\ dev.capture # NULL
    /\ LET sock == heap[dev.capture].sock
       IN  /\ sock.active
           /\ sock.check_timeout = "__ni_dhcp_socket_check_timeout"
           /\ \E n \in { __ni_dhcp_socket_check_timeout(heap, dev, sock, now) } :
                 /\ last' = [NoOp EXCEPT !.op = "check_timeout", !.now = now,
                                          !.tv = dev.retrans.deadline,
                                          !.retransmit = n,
                                          !.fsm = IF n > 0 THEN "ni_dhcp_device_retransmit"
                                                           ELSE "none"]
                 /\ dev' = IF n > 0 /\ ~rearm
                            THEN [dev EXCEPT !.retrans.deadline = timerclear]
                            ELSE dev
    /\ UNCHANGED <<done, dhcp_bpf_filter, arp_bpf_filter, heap>>
    /\ UNCHANGED codecVars

\* the FSM sets or clears the retransmit deadline of its device
FsmSetDeadline(t) ==
    /\ dev.retrans.deadline # t
    /\ dev' = [dev EXCEPT !.retrans.deadline = t]
    /\ last' = [NoOp EXCEPT !.op = "fsm_set_deadline", !.tv = t]
    /\ UNCHANGED <<done, dhcp_bpf_filter, arp_bpf_filter, heap>>
    /\ UNCHANGED codecVars

Next ==
    \/ \E udp \in {"socket_fails", "bind_fails", "ok"}, sys \in SysOutcomes :
            ni_dhcp_socket_open(udp, sys)
    \/ \E sys \in SysOutcomes : ni_arp_socket_open(sys)
    \/ SocketError
    \/ \E f \in LinkFrames : DataReady(f)
    \/ DataReadyReadFails

Spec == Init /\ [][Next]_vars

\* the same program with the FSM's retransmit timer running and the event loop
\* calling the timeout hooks of the capture socket
NextTimer ==
    \/ Next
    \/ \E tv_in \in {timerclear} : GetTimeout(tv_in)
    \/ \E now \in Timevals, rearm \in BOOLEAN : CheckTimeout(now, rearm)
    \/ \E t \in Timevals : FsmSetDeadline(t)

SpecTimer == Init /\ [][NextTimer]_vars

(***************************************************************************)
(* Properties of the capture handle and the classifiers (checked under     *)
(* Spec)                                                                   *)
(***************************************************************************)
Live == {i \in 1..Len(heap) : heap[i].live}
Installed(protocol) ==
    dev.capture # NULL /\ heap[dev.capture].protocol = protocol

\* C2: at most one capture that is not freed exists, dev->capture is NULL or
\* that capture, every capture was allocated when no other capture was left
\* unfreed, and a freed capture has its socket closed and its buffer released.
C2_OneCapture ==
    /\ Cardinality(Live) <= 1
    /\ IF dev.capture = NULL THEN Live = {} ELSE Live = {dev.capture}
    /\ \A i \in Live : heap[i].others_live = 0
    /\ \A i \in 1..Len(heap) :
          ~heap[i].live =>
              ~heap[i].sock.open /\ ~heap[i].sock.active /\ heap[i].buffer = <<>>

\* an erroring capture was replaced by a newly opened one
C2_Witness ==
    /\ last.op = "ni_arp_socket_open" /\ last.ret = 0 /\ last.attach = 1
    /\ dev.capture # NULL /\ dev.capture >= 2
    /\ \E i \in 1..Len(heap) : ~heap[i].live

\* C3: a call of ni_dhcp_socket_open that directly follows a successful one
\* returns success with the same dev->capture, attaches no filter and creates no
\* UDP socket; and an open of a protocol whose capture exists with an error-free
\* socket returns success and changes no capture, socket, hook or device state.
C3_IdempotentReopen ==
    [][ /\ ( /\ last.op = "ni_dhcp_socket_open" /\ last.ret = 0
             /\ last'.op = "ni_dhcp_socket_open" )
           => ( /\ last'.ret = 0
                /\ dev'.capture = dev.capture
                /\ last'.attach = 0
                /\ last'.udp_socket = 0 )
        /\ ( \/ last'.op = "ni_dhcp_socket_open" /\ Installed(ETHERTYPE_IP)
                    /\ ~heap[dev.capture].sock.error
             \/ last'.op = "ni_arp_socket_open" /\ Installed(ETHERTYPE_ARP)
                    /\ ~heap[dev.capture].sock.error )
           => ( /\ last'.ret = 0
                /\ last'.attach = 0
                /\ last'.udp_socket = 0
                /\ UNCHANGED <<dev, heap, done, dhcp_bpf_filter, arp_bpf_filter>> )
      ]_vars

\* IPv4/UDP packets to port 68 that are fragments
FragmentFrames ==
    { IPv4Frame(4, hl, off, IPPROTO_UDP, SERVER_ADDR, INADDR_BROADCAST,
                DHCP_SERVER_PORT, DHCP_CLIENT_PORT, OFFER_BODY) :
        hl \in {5, 6}, off \in {1, 185, IP_MF, IP_MF + 185, IP_DF + IP_MF, IP_OFFMASK} }

IsFragment(data) ==
    LET off == data[7] * 256 + data[8]
    IN  off % IP_MF # 0 \/ (off \div IP_MF) % 2 = 1

\* C8: the installed DHCP filter returns 0 for every IPv4/UDP packet to port 68
\* whose fragment offset is nonzero or whose More-Fragments flag is set, and no
\* such packet reaches ni_dhcp_socket_recv or the FSM.
C8_FragmentsDropped ==
    /\ Installed(ETHERTYPE_IP) =>
          \A f \in FragmentFrames : BpfRun(heap[dev.capture].sock.filter, f) = 0
    /\ (last.op = "ni_dhcp_socket_recv" /\ last.bytes >= 0) =>
          ~IsFragment(last.frame.data)

\* unfragmented IPv4 packets with every header length, carrying a complete
\* 8-byte transport header
UnfragFrames ==
    { [ proto |-> proto, dport |-> dport,
        data |-> IPv4Frame(4, hl, off, proto, SERVER_ADDR, INADDR_BROADCAST,
                           DHCP_SERVER_PORT, dport, OFFER_BODY) ] :
        hl \in 5..15, off \in {0, IP_DF}, proto \in {IPPROTO_UDP, IPPROTO_TCP, 1},
        dport \in {DHCP_CLIENT_PORT, DHCP_SERVER_PORT, 17408, 0} }

\* C9: for every unfragmented IPv4 packet with IHL in 5..15 the installed DHCP
\* filter returns accept-whole-packet exactly when the protocol is UDP and the
\* destination port at IHL*4 + 2 is 68, and 0 otherwise.
C9_DhcpAcceptSet ==
    Installed(ETHERTYPE_IP) =>
        \A f \in UnfragFrames :
            BpfRun(heap[dev.capture].sock.filter, f.data) =
                (IF f.proto = IPPROTO_UDP /\ f.dport = DHCP_CLIENT_PORT
                 THEN BPF_ACCEPT_ALL ELSE 0)

\* an OFFER passed the installed filter and was read
C9_Witness ==
    /\ Installed(ETHERTYPE_IP)
    /\ last.op = "ni_dhcp_socket_recv"
    /\ last.fsm = "ni_dhcp_fsm_process_dhcp_packet"
    /\ ~IsFragment(last.frame.data)

\* frames of every ARP operation, and IP frames, one of them with 0x0002 where
\* an ARP packet has its operation
ArpTestFrames ==
    { LinkFrame(ETHERTYPE_ARP, ArpFrom(op)) : op \in {0, 1, 2, 3, 4, 512} }
    \cup { LinkFrame(ETHERTYPE_IP, Offer(off, IPPROTO_UDP, DHCP_CLIENT_PORT)) :
              off \in {0, 2} }

IsArpReply(f) ==
    f.ethertype = ETHERTYPE_ARP /\ SubSeq(f.data, 7, 8) = BE16(ARPOP_REPLY)

PatchedLoads(dhcp, arp) ==
    << dhcp[3].k, dhcp[5].k, dhcp[7].k, dhcp[8].k, arp[3].k >>

\* C11: the programs are the compiled ones until the first ni_capture_set_filter
\* call and from then on the compiled ones with each patched load moved down by
\* 14 exactly once (DHCP loads at 9, 6, 0 and X+2, ARP operation load at 6), the
\* EtherType jumps falling through; once patched, no call of any protocol,
\* failing or not, changes an instruction of either program.
C11_PatchedOnce ==
    /\ [](IF done = 0
           THEN /\ dhcp_bpf_filter = dhcp_bpf_filter_init
                /\ arp_bpf_filter = arp_bpf_filter_init
           ELSE /\ done = 1
                /\ PatchedLoads(dhcp_bpf_filter, arp_bpf_filter) = <<9, 6, 0, 2, 6>>
                /\ PatchedLoads(dhcp_bpf_filter_init, arp_bpf_filter_init)
                      = <<9 + ETH_HLEN, 6 + ETH_HLEN, 0 + ETH_HLEN, 2 + ETH_HLEN, 6 + ETH_HLEN>>
                /\ dhcp_bpf_filter = MassageDhcp(dhcp_bpf_filter_init)
                /\ arp_bpf_filter = MassageArp(arp_bpf_filter_init))
    /\ [][ done = 1 => /\ done' = 1
                       /\ UNCHANGED <<dhcp_bpf_filter, arp_bpf_filter>> ]_vars

\* a later ni_capture_set_filter call: an ARP open that failed at or after the
\* filter step, on a device that ni_dhcp_socket_open was called for, with an
\* earlier capture allocated (each allocation is followed by one call)
C11_Witness ==
    /\ done = 1
    /\ last.op = "ni_arp_socket_open" /\ last.attach = 1 /\ last.ret = -1
    /\ dev.listen_fd # -1
    /\ Len(heap) >= 2

(***************************************************************************)
(* Properties of the timeout hooks (checked under SpecTimer)               *)
(***************************************************************************)
\* a timeval as a count of microseconds
Micros(tv) == tv.tv_sec * 1000000 + tv.tv_usec

\* C12: one call of check_timeout(sock, now) calls ni_dhcp_device_retransmit
\* exactly once if the device's deadline is set and strictly earlier than now,
\* and not at all if it is unset, equal to now or later; when the FSM is not
\* called the device is unchanged, and the capture is unchanged in either case.
C12_TimeoutFires ==
    [][ last'.op = "check_timeout" =>
          LET due == /\ Micros(dev.retrans.deadline) # 0
                     /\ Micros(dev.retrans.deadline) < Micros(last'.now)
          IN  /\ last'.retransmit = (IF due THEN 1 ELSE 0)
              /\ last'.fsm = (IF due THEN "ni_dhcp_device_retransmit" ELSE "none")
              /\ ~due => dev' = dev
              /\ heap' = heap
      ]_vars

\* a deadline in the same second as now, earlier by its microseconds, fired on
\* a capture that replaced another
C12_Witness ==
    /\ last.op = "check_timeout" /\ last.retransmit = 1
    /\ last.tv.tv_sec = last.now.tv_sec /\ last.tv.tv_sec # 0
    /\ dev.capture # NULL /\ dev.capture >= 2

\* C13: get_timeout returns 0 with the deadline now stored on the device
\* whenever that deadline is set, and -1 whenever it is not.
C13_GetTimeout ==
    last.op = "get_timeout" =>
        IF Micros(dev.retrans.deadline) # 0
        THEN last.ret = 0 /\ last.tv = dev.retrans.deadline
        ELSE last.ret = -1

\* a deadline of microseconds only, returned by the socket of a capture that
\* replaced another
C13_Witness ==
    /\ last.op = "get_timeout" /\ last.ret = 0
    /\ last.tv = Timeval(0, 500000)
    /\ dev.capture # NULL /\ dev.capture >= 2

(***************************************************************************)
(* Failure and replacement of captures (checked under Spec)                *)
(***************************************************************************)
OpenOps == {"ni_dhcp_socket_open", "ni_arp_socket_open"}

\* an open returned -1 from its call of ni_capture_open
CaptureOpenFailed ==
    last.op \in OpenOps /\ last.ret = -1 /\ last.udp_socket # -1

\* C14: after an open whose capture creation failed, at whichever step, the
\* adapter has returned -1, dev->capture is NULL, no capture is left unfreed,
\* and every capture ever allocated - the partially built one included - has
\* its socket closed and out of the event loop and its buffer released.
C14_OpenFailureUnwinds ==
    CaptureOpenFailed =>
        /\ dev.capture = NULL
        /\ \A i \in 1..Len(heap) :
              /\ ~heap[i].live
              /\ ~heap[i].sock.open
              /\ ~heap[i].sock.active
              /\ heap[i].sock.data_ready = "NULL"
              /\ heap[i].buffer = <<>>

\* a capture was allocated and its filter step run before the open failed, on
\* a device that had a capture installed
C14_Witness ==
    /\ CaptureOpenFailed
    /\ last.attach = 1
    /\ Len(heap) >= 2

\* the EtherType and the callback an open asks for
Requested(op) ==
    IF op = "ni_arp_socket_open"
    THEN [protocol |-> ETHERTYPE_ARP, data_ready |-> "ni_arp_socket_recv"]
    ELSE [protocol |-> ETHERTYPE_IP, data_ready |-> "ni_dhcp_socket_recv"]

\* the device's capture cannot be reused for protocol
Stale(protocol) ==
    /\ dev.capture # NULL
    /\ heap[dev.capture].sock.error \/ heap[dev.capture].protocol # protocol

\* what an open step does with a stale capture: the old one is destroyed; on
\* success a new capture of the requested EtherType is installed, its socket
\* open, active and error-free, both timeout hooks and the device
\* back-reference set; on failure dev->capture is NULL
ReplacesStale ==
    LET req == Requested(last'.op)
        old == dev.capture
        new == dev'.capture
    IN  /\ ~heap'[old].live /\ ~heap'[old].sock.open /\ ~heap'[old].sock.active
        /\ IF last'.ret = 0
           THEN /\ new # NULL /\ new # old
                /\ heap'[new].live
                /\ heap'[new].protocol = req.protocol
                /\ heap'[new].sock.open /\ heap'[new].sock.active
                /\ ~heap'[new].sock.error
                /\ heap'[new].sock.data_ready = req.data_ready
                /\ heap'[new].sock.get_timeout = "__ni_dhcp_socket_get_timeout"
                /\ heap'[new].sock.check_timeout = "__ni_dhcp_socket_check_timeout"
                /\ heap'[new].dev = DevPtr
           ELSE new = NULL

\* a capture only moves open -> error -> closed: a freed capture stays freed
\* and an error flag stays set until the capture is freed
HandleLifeCycle ==
    \A i \in 1..Len(heap) :
        /\ ~heap[i].live => ~heap'[i].live
        /\ (heap[i].sock.error /\ heap'[i].live) => heap'[i].sock.error

\* C15 as claimed: every open on a device whose capture is erroring or of
\* another EtherType destroys that capture and on success installs a new one.
C15_AnyOpenReplacesStale ==
    [][ /\ (last'.op \in OpenOps /\ Stale(Requested(last'.op).protocol))
            => ReplacesStale
        /\ HandleLifeCycle ]_vars

\* C15, amended: every open that reaches __ni_dhcp_common_open - every
\* ni_arp_socket_open, and every ni_dhcp_socket_open that did not return early
\* because socket() for the UDP dummy socket failed - destroys a capture that
\* is erroring or of another EtherType and on success installs a new one; after
\* such an open the installed capture is never an erroring one.
C15_StaleReplaced ==
    [][ /\ ( /\ last'.op \in OpenOps
             /\ last'.udp_socket # -1
             /\ Stale(Requested(last'.op).protocol) )
            => ReplacesStale
        /\ (last'.op \in OpenOps /\ last'.udp_socket # -1 /\ dev'.capture # NULL)
            => ~heap'[dev'.capture].sock.error
        /\ HandleLifeCycle ]_vars

\* a DHCP open on a device that was opened for DHCP before freed the capture it
\* found and installed a new one
C15_Witness ==
    /\ last.op = "ni_dhcp_socket_open" /\ last.ret = 0 /\ last.attach = 1
    /\ last.udp_socket = 0
    /\ dev.capture # NULL /\ dev.capture >= 2
    /\ ~heap[dev.capture - 1].live
    /\ heap[dev.capture].sock.get_timeout = "__ni_dhcp_socket_get_timeout"

(***************************************************************************)
(* Properties of the receive callbacks (checked under Spec)                *)
(***************************************************************************)
\* C16: a run of ni_dhcp_socket_recv calls ni_dhcp_fsm_process_dhcp_packet -
\* once - exactly when read() succeeded and check_packet_header accepts the
\* bytes read; in every case the device record, every field of the capture and
\* its socket (still open and active) are unchanged, read() having written only
\* into the receive buffer, and nothing at all when it failed.
C16_DropsStayBelowFsm ==
    [][ last'.op = "ni_dhcp_socket_recv" =>
          LET c == dev.capture
              passes == /\ last'.bytes >= 0
                        /\ check_packet_header(heap'[c].buffer, last'.bytes).ret # NULL
          IN  /\ last'.fsm = (IF passes THEN "ni_dhcp_fsm_process_dhcp_packet"
                                         ELSE "none")
              /\ dev' = dev
              /\ heap = [heap' EXCEPT ![c].buffer = heap[c].buffer]
              /\ Len(heap'[c].buffer) = heap[c].mtu
              /\ last'.bytes < 0 => heap' = heap
              /\ heap'[c].sock.open /\ heap'[c].sock.active
      ]_vars

\* a packet that the filter let through was read and dropped by
\* check_packet_header
C16_Witness ==
    /\ last.op = "ni_dhcp_socket_recv"
    /\ last.bytes > 0
    /\ last.fsm = "none"
    /\ dev.capture # NULL /\ heap[dev.capture].sock.active

\* C17: when ni_arp_socket_recv has read an ARP frame of n bytes, the reader it
\* gives to ni_dhcp_fsm_process_arp_packet starts at the frame and holds exactly
\* the n bytes read, none of the buffer behind them.
C17_ArpReaderIsFrame ==
    (last.op = "ni_arp_socket_recv" /\ last.bytes >= 0) =>
        /\ last.fsm = "ni_dhcp_fsm_process_arp_packet"
        /\ last.reader_off = 0
        /\ last.reader_len = last.bytes

(***************************************************************************)
(* The DHCP adapter's listening UDP socket (checked under Spec)            *)
(***************************************************************************)
\* C18: after every ni_dhcp_socket_open that returned success the device holds
\* the bound UDP socket (dev->listen_fd # -1); a UDP socket is bound only while
\* the device holds none, and once it holds one, that one is kept and no open
\* creates another.
C18_ListenSocketBoundOnce ==
    /\ []((last.op = "ni_dhcp_socket_open" /\ last.ret = 0) => dev.listen_fd # -1)
    /\ [][ ( (last'.op = "ni_dhcp_socket_open" /\ last'.udp_bind = 1)
                => (dev.listen_fd = -1 /\ dev'.listen_fd # -1) )
           /\
            ( dev.listen_fd # -1
                => (dev'.listen_fd = dev.listen_fd /\ last'.udp_socket = 0) )
         ]_vars

(***************************************************************************)
(* Extent of the payload and link padding (checked under SpecCodec)        *)
(***************************************************************************)
\* C19: for every accepted packet the region of payload_len bytes that starts
\* at the returned payload lies within the bytes read, and so within the
\* receive buffer.
C19_PayloadInsideReceived ==
    Accepted =>
        /\ rx.ret + rx.payload_len <= rx.bytes
        /\ rx.ret + rx.payload_len <= Len(buffer)

\* C20: a built packet that arrives with padding bytes of any value behind it
\* gets the verdict, the payload and the payload length that check_packet_header
\* gives for the packet alone.
C20_PaddingIgnored ==
    (pc = "checked" /\ via = "pad") =>
        LET alone == check_packet_header(bp, Len(bp))
        IN  /\ rx.ret = alone.ret
            /\ rx.payload_len = alone.payload_len

(***************************************************************************)
(* The patched classifiers against the compiled ones (checked under Spec)  *)
(***************************************************************************)
\* the 14-byte Ethernet header a link-view capture has in front of the packet
EthHeader(ethertype) == HW_BROADCAST \o SERVER_HW \o BE16(ethertype)

\* network-layer packets of at least 20 bytes: IPv4 with several header lengths,
\* protocols and ports, fragments, packets cut short of their UDP header, ARP
\* packets and packets of one repeated byte
EquivPackets ==
    FragmentFrames
    \cup { IPv4Frame(4, hl, 0, proto, SERVER_ADDR, INADDR_BROADCAST,
                     DHCP_SERVER_PORT, dport, OFFER_BODY) :
             hl \in {5, 6, 15}, proto \in {IPPROTO_UDP, IPPROTO_TCP},
             dport \in {DHCP_CLIENT_PORT, DHCP_SERVER_PORT} }
    \cup { SubSeq(IPv4Frame(4, hl, 0, IPPROTO_UDP, SERVER_ADDR, INADDR_BROADCAST,
                            DHCP_SERVER_PORT, DHCP_CLIENT_PORT, OFFER_BODY), 1, n) :
             hl \in {5, 15}, n \in {20, 23} }
    \cup { ArpFrom(op) : op \in {ARPOP_REQUEST, ARPOP_REPLY, 3} }
    \cup { Fill(20, b) : b \in {0, 2, 255} }

\* C21: once patched, the DHCP (ARP) program run on a network-layer packet of
\* at least 20 bytes returns what the compiled program returns on the packet
\* behind an Ethernet header of EtherType IP (ARP); the loads of the patched
\* programs are the compiled ones moved down by the 14 bytes of that header;
\* and an installed capture's socket runs the patched program of its EtherType.
C21_PatchPreservesVerdict ==
    /\ done = 1 =>
          /\ \A p \in EquivPackets :
                /\ Len(p) >= 20
                /\ BpfRun(dhcp_bpf_filter, p)
                      = BpfRun(dhcp_bpf_filter_init, EthHeader(ETHERTYPE_IP) \o p)
                /\ BpfRun(arp_bpf_filter, p)
                      = BpfRun(arp_bpf_filter_init, EthHeader(ETHERTYPE_ARP) \o p)
          /\ \A i \in 1..5 :
                PatchedLoads(dhcp_bpf_filter, arp_bpf_filter)[i]
                  = PatchedLoads(dhcp_bpf_filter_init, arp_bpf_filter_init)[i] - ETH_HLEN
    /\ Installed(ETHERTYPE_IP) =>
          heap[dev.capture].sock.filter = dhcp_bpf_filter
    /\ Installed(ETHERTYPE_ARP) =>
          heap[dev.capture].sock.filter = arp_bpf_filter

\* both programs were attached: an ARP capture is installed on a device that
\* had a DHCP capture, and it took in an ARP REPLY
C21_Witness ==
    /\ done = 1
    /\ Installed(ETHERTYPE_ARP)
    /\ dev.listen_fd # -1 /\ dev.capture >= 2
    /\ last.op = "ni_arp_socket_recv" /\ last.bytes = 28

(***************************************************************************)
(* Shape of the installed capture (checked under Spec)                     *)
(***************************************************************************)
\* a 16-bit value as the two bytes the host stores for it, read in network
\* order
WireOrder(x) == IF hostBE THEN x ELSE (x % 256) * 256 + x \div 256

\* C22: whenever the event loop has control and dev->capture is set, the
\* capture points back to the device, its socket's user_data is the capture,
\* both timeout hooks are installed, its link sockaddr holds the capture's
\* EtherType in network order and the device's interface index, and its
\* data_ready callback is the receive function of its EtherType; a receive
\* callback that ran, ran on a capture of its own EtherType.
C22_InstalledWellFormed ==
    /\ dev.capture # NULL =>
          LET c == dev.capture
              cap == heap[c]
          IN  /\ cap.live
              /\ cap.dev = DevPtr
              /\ cap.sock.user_data = c
              /\ cap.sock.get_timeout = "__ni_dhcp_socket_get_timeout"
              /\ cap.sock.check_timeout = "__ni_dhcp_socket_check_timeout"
              /\ cap.protocol \in {ETHERTYPE_IP, ETHERTYPE_ARP}
              /\ WireOrder(cap.sll.protocol) = cap.protocol
              /\ cap.sll.ifindex = dev.system.ifindex
              /\ cap.sll.ifindex # 0
              /\ cap.sock.data_ready =
                    (IF cap.protocol = ETHERTYPE_IP THEN "ni_dhcp_socket_recv"
                                                    ELSE "ni_arp_socket_recv")
    /\ last.op = "ni_dhcp_socket_recv" => Installed(ETHERTYPE_IP)
    /\ last.op = "ni_arp_socket_recv" => Installed(ETHERTYPE_ARP)

\* on a little-endian host a DHCP capture that replaced another has read a
\* packet; its sll_protocol is stored as 0x0008
C22_Witness ==
    /\ ~hostBE
    /\ Installed(ETHERTYPE_IP)
    /\ dev.capture >= 2
    /\ heap[dev.capture].sll.protocol = 8
    /\ last.op = "ni_dhcp_socket_recv" /\ last.bytes > 0

(***************************************************************************)
(* DBus error mapping (dbus-errors.c)                                      *)
(*                                                                         *)
(* The error codes of wicked/constants.h, the error names of               *)
(* wicked/dbus-errors.h and the two ni_intmap_t lookups of util.c are not  *)
(* part of the sources at hand.  The codes are taken to be distinct        *)
(* positive enumerators, the names to be distinct strings (written here as *)
(* their macro names), and the lookups to return the first entry that      *)
(* matches exactly.                                                        *)
(***************************************************************************)
NI_ERROR ==
    [ GENERAL_FAILURE |-> 1, PERMISSION_DENIED |-> 2, INTERFACE_NOT_KNOWN |-> 3,
      INTERFACE_BAD_HIERARCHY |-> 4, INTERFACE_IN_USE |-> 5, INTERFACE_NOT_UP |-> 6,
      INTERFACE_NOT_DOWN |-> 7, INTERFACE_NOT_COMPATIBLE |-> 8,
      INTERFACE_EXISTS |-> 9, AUTH_INFO_MISSING |-> 10, ADDRCONF_NO_LEASE |-> 11,
      CANNOT_CONFIGURE_ADDRESS |-> 12, CANNOT_CONFIGURE_ROUTE |-> 13,
      CANNOT_MARSHAL |-> 14, PROPERTY_NOT_PRESENT |-> 15,
      UNRESOLVABLE_HOSTNAME |-> 16, UNREACHABLE_ADDRESS |-> 17 ]

DBUS_ERROR_FAILED == "org.freedesktop.DBus.Error.Failed"

IntMap(name, value) == [name |-> name, value |-> value]

\* the entries of the array before its { NULL } terminator
__ni_dbus_errors ==
    << IntMap("NI_DBUS_ERROR_PERMISSION_DENIED", NI_ERROR.PERMISSION_DENIED),
       IntMap("NI_DBUS_ERROR_INTERFACE_NOT_KNOWN", NI_ERROR.INTERFACE_NOT_KNOWN),
       IntMap("NI_DBUS_ERROR_INTERFACE_BAD_HIERARCHY", NI_ERROR.INTERFACE_BAD_HIERARCHY),
       IntMap("NI_DBUS_ERROR_INTERFACE_IN_USE", NI_ERROR.INTERFACE_IN_USE),
       IntMap("NI_DBUS_ERROR_INTERFACE_NOT_UP", NI_ERROR.INTERFACE_NOT_UP),
       IntMap("NI_DBUS_ERROR_INTERFACE_NOT_DOWN", NI_ERROR.INTERFACE_NOT_DOWN),
       IntMap("NI_DBUS_ERROR_INTERFACE_NOT_COMPATIBLE", NI_ERROR.INTERFACE_NOT_COMPATIBLE),
       IntMap("NI_DBUS_ERROR_INTERFACE_EXISTS", NI_ERROR.INTERFACE_EXISTS),
       IntMap("NI_DBUS_ERROR_AUTH_INFO_MISSING", NI_ERROR.AUTH_INFO_MISSING),
       IntMap("NI_DBUS_ERROR_ADDRCONF_NO_LEASE", NI_ERROR.ADDRCONF_NO_LEASE),
       IntMap("NI_DBUS_ERROR_CANNOT_CONFIGURE_ADDRESS", NI_ERROR.CANNOT_CONFIGURE_ADDRESS),
       IntMap("NI_DBUS_ERROR_CANNOT_CONFIGURE_ROUTE", NI_ERROR.CANNOT_CONFIGURE_ROUTE),
       IntMap("NI_DBUS_ERROR_CANNOT_MARSHAL", NI_ERROR.CANNOT_MARSHAL),
       IntMap("NI_DBUS_ERROR_PROPERTY_NOT_PRESENT", NI_ERROR.PROPERTY_NOT_PRESENT),
       IntMap("NI_DBUS_ERROR_UNRESOLVABLE_HOSTNAME", NI_ERROR.UNRESOLVABLE_HOSTNAME),
       IntMap("NI_DBUS_ERROR_UNREACHABLE_ADDRESS", NI_ERROR.UNREACHABLE_ADDRESS) >>

\* ni_parse_int_mapped(name, map, &value): 0 and the value of the first entry
\* named name, or -1
RECURSIVE ni_parse_int_mapped(_, _, _)
ni_parse_int_mapped(name, map, i) ==
    IF i > Len(map) THEN [rv |-> -1, value |-> 0]
    ELSE IF map[i].name = name THEN [rv |-> 0, value |-> map[i].value]
    ELSE ni_parse_int_mapped(name, map, i + 1)

\* ni_format_int_mapped(value, map): the name of the first entry with value,
\* or NULL (found FALSE)
RECURSIVE ni_format_int_mapped(_, _, _)
ni_format_int_mapped(value, map, i) ==
    IF i > Len(map) THEN [found |-> FALSE, name |-> ""]
    ELSE IF map[i].value = value THEN [found |-> TRUE, name |-> map[i].name]
    ELSE ni_format_int_mapped(value, map, i + 1)

\* `return -code` with code an unsigned int below 2^31, as the int returned
NegateUnsigned(code) == IF code = 0 THEN 0 ELSE 0 - code

\* ni_dbus_get_error returning the code as it stands in the table
get_error_not_negated(error, want_detail, detail_in) ==
    LET r == ni_parse_int_mapped(error.name, __ni_dbus_errors, 1)
    IN  IF r.rv < 0
        THEN [ret |-> 0 - NI_ERROR.GENERAL_FAILURE, detail |-> detail_in]
        ELSE [ret |-> r.value,
              detail |-> IF want_detail THEN error.message ELSE detail_in]

\* ni_dbus_get_error(error, detail): want_detail says that detail is not NULL,
\* detail_in is what *detail holds on entry
ni_dbus_get_error(error, want_detail, detail_in) ==
    LET r == ni_parse_int_mapped(error.name, __ni_dbus_errors, 1)
    IN  IF r.rv < 0
        THEN [ret |-> 0 - NI_ERROR.GENERAL_FAILURE, detail |-> detail_in]
        ELSE [ret |-> NegateUnsigned(r.value),
              detail |-> IF want_detail THEN error.message ELSE detail_in]

\* ni_dbus_set_error_from_code(error, errcode, fmt, ...): msg is the formatted
\* message; the result is what dbus_set_error stores in *error
ni_dbus_set_error_from_code(errcode, msg) ==
    LET f == ni_format_int_mapped(0 - errcode, __ni_dbus_errors, 1)
    IN  [ name |-> IF f.found THEN f.name ELSE DBUS_ERROR_FAILED,
          message |-> msg ]

\* error codes 0..MaxErrCode are passed, negated, to ni_dbus_set_error_from_code
MaxErrCode == 19

ErrCodes == { 0 - c : c \in 0..MaxErrCode } \cup { NI_ERROR.PERMISSION_DENIED }
ErrMessages == { "", "no lease" }
TableNames == { __ni_dbus_errors[i].name : i \in 1..Len(__ni_dbus_errors) }
TableCodes == { __ni_dbus_errors[i].value : i \in 1..Len(__ni_dbus_errors) }
\* names a DBusError can carry: those of the table and others
ErrNames ==
    TableNames \cup { DBUS_ERROR_FAILED, "org.freedesktop.DBus.Error.NoReply",
                      "NI_DBUS_ERROR_PERMISSION", "" }

\* the DBusError at hand, how it was set, and the result of the last call
NoError ==
    [ op |-> "none", error |-> [name |-> "", message |-> ""],
      from_code |-> FALSE, errcode |-> 0, ret |-> 0, detail |-> "" ]

DbusInit ==
    /\ hostBE = FALSE
    /\ pc = "idle"
    /\ bp = <<>>
    /\ tx = [payload |-> <<>>, src |-> INADDR_ANY, dst |-> INADDR_ANY]
    /\ via = "none"
    /\ wire = <<>>
    /\ buffer = <<>>
    /\ rx = NoRx
    /\ done = 0
    /\ dhcp_bpf_filter = <<>>
    /\ arp_bpf_filter = <<>>
    /\ dev = [capture |-> NULL]
    /\ heap = <<>>
    /\ last = NoError

\* a service fails a call with ni_dbus_set_error_from_code(error, errcode, msg)
SetErrorFromCode(errcode, msg) ==
    /\ last' = [NoError EXCEPT !.op = "ni_dbus_set_error_from_code",
                               !.error = ni_dbus_set_error_from_code(errcode, msg),
                               !.from_code = TRUE, !.errcode = errcode]
    /\ UNCHANGED <<done, dhcp_bpf_filter, arp_bpf_filter, dev, heap>>
    /\ UNCHANGED codecVars

\* a reply arrives that carries an error of some name
ReplyError(name, msg) ==
    /\ last' = [NoError EXCEPT !.op = "reply", !.error = [name |-> name, message |-> msg]]
    /\ UNCHANGED <<done, dhcp_bpf_filter, arp_bpf_filter, dev, heap>>
    /\ UNCHANGED codecVars

\* the client maps the error at hand with ni_dbus_get_error(error, detail)
GetError(want_detail) ==
    /\ last.op \in {"ni_dbus_set_error_from_code", "reply"}
    /\ \E r \in { ni_dbus_get_error(last.error, want_detail, "") } :
          last' = [last EXCEPT !.op = "ni_dbus_get_error", !.ret = r.ret,
                               !.detail = r.detail]
    /\ UNCHANGED <<done, dhcp_bpf_filter, arp_bpf_filter, dev, heap>>
    /\ UNCHANGED codecVars

DbusNext ==
    \/ \E errcode \in ErrCodes, msg \in ErrMessages : SetErrorFromCode(errcode, msg)
    \/ \E name \in ErrNames, msg \in ErrMessages : ReplyError(name, msg)
    \/ \E want_detail \in BOOLEAN : GetError(want_detail)

SpecDbus == DbusInit /\ [][DbusNext]_vars

====
